---- MODULE Spec2Model ----
(***************************************************************************)
(* ChemSim.py: the element selector get_element_info, the main block and   *)
(* the renderer create_atom_model, as a state machine.                     *)
(*                                                                         *)
(* Strings are sequences of one-character strings.  Lengths are in tenths  *)
(* of a unit (radius 0.3*i is 3*i), nucleus offsets in hundredths.  Angles *)
(* are quantised to quarter turns, so sine and cosine are exact integers.  *)
(***************************************************************************)
EXTENDS Integers, Sequences, FiniteSets, TLC

VARIABLES pc, depth, console, line, reads, ret,
          element, atomic_number, calls, args,
          rng, i, wireframes, nucleus, protons, neutrons,
          electron_positions, scatters, shown, run, prev

selVars == <<depth, console, line, reads, ret>>
callVars == <<element, atomic_number, calls, args>>
drawVars == <<wireframes, nucleus, protons, neutrons, electron_positions, scatters>>
vars == <<pc, depth, console, line, reads, ret, element, atomic_number, calls, args,
          rng, i, wireframes, nucleus, protons, neutrons,
          electron_positions, scatters, shown, run, prev>>

\* ---- bounds ----
MaxDepth == 3
MaxSeed == 2
MaxN == 21
MaxRuns == 2

\* ---- values standing for Python's None ----
None == <<>>
NoLine == <<"<none>">>
NoPrev == [run |-> 0]

\* ---- strings ----
LowerCase == <<"a","b","c","d","e","f","g","h","i","j","k","l","m",
               "n","o","p","q","r","s","t","u","v","w","x","y","z">>
UpperCase == <<"A","B","C","D","E","F","G","H","I","J","K","L","M",
               "N","O","P","Q","R","S","T","U","V","W","X","Y","Z">>

ToUpper(c) ==
    IF \E k \in 1..26 : LowerCase[k] = c
    THEN UpperCase[CHOOSE k \in 1..26 : LowerCase[k] = c]
    ELSE c

ToLower(c) ==
    IF \E k \in 1..26 : UpperCase[k] = c
    THEN LowerCase[CHOOSE k \in 1..26 : UpperCase[k] = c]
    ELSE c

\* str.upper(): every character upper-cased
upper_all(s) == [k \in 1..Len(s) |-> ToUpper(s[k])]

\* str.capitalize(): first character upper-cased, the rest lower-cased
capitalize(s) == [k \in 1..Len(s) |-> IF k = 1 THEN ToUpper(s[k]) ELSE ToLower(s[k])]

\* ---- the element table ----
periodic_table ==
    (<<"H">> :> 1) @@ (<<"H","e">> :> 2) @@ (<<"L","i">> :> 3) @@ (<<"B","e">> :> 4) @@
    (<<"B">> :> 5) @@ (<<"C">> :> 6) @@ (<<"N">> :> 7) @@ (<<"O">> :> 8) @@
    (<<"F">> :> 9) @@ (<<"N","e">> :> 10) @@ (<<"N","a">> :> 11) @@ (<<"M","g">> :> 12) @@
    (<<"A","l">> :> 13) @@ (<<"S","i">> :> 14) @@ (<<"P">> :> 15) @@ (<<"S">> :> 16) @@
    (<<"C","l">> :> 17) @@ (<<"A","r">> :> 18) @@ (<<"K">> :> 19) @@ (<<"C","a">> :> 20)

\* dict.get(e, 0): a default pair for a missing key
Lookup_default(e) ==
    IF e \in DOMAIN periodic_table THEN <<e, periodic_table[e]>> ELSE <<e, 0>>

\* `element in periodic_table` and `periodic_table[element]`
Lookup(e) ==
    IF e \in DOMAIN periodic_table THEN <<e, periodic_table[e]>> ELSE None

\* ---- console output of get_element_info ----
AvailableText == "Available elements:"
KeysText == "H, He, Li, Be, B, C, N, O, F, Ne, Na, Mg, Al, Si, P, S, Cl, Ar, K, Ca"
PromptText == "Enter the symbol of the element: "
NotFoundText == "Element not found in the periodic table. Please try again."

\* what one call prints before it blocks in input()
CallPrints == <<AvailableText, KeysText, PromptText>>

\* ---- input lines ----
RECURSIVE CaseVariants(_)
CaseVariants(S) ==
    IF S = <<>> THEN {<<>>}
    ELSE {<<c>> \o t : c \in {ToLower(S[1]), ToUpper(S[1])}, t \in CaseVariants(Tail(S))}

ValidLines == UNION {CaseVariants(S) : S \in DOMAIN periodic_table}
InvalidLines == {<<>>, <<"X">>, <<"h","x">>, <<" ","h">>, <<"H","e","e">>, <<"2","0">>}
InputLines == ValidLines \cup InvalidLines

\* ---- Python helpers ----
Min(a, b) == IF a <= b THEN a ELSE b

\* range(a, b)
Range(a, b) == a..(b - 1)

\* arr[:n] and arr[n:]
Take(arr, n) == SubSeq(arr, 1, Min(n, Len(arr)))
Drop(arr, n) == SubSeq(arr, Min(n, Len(arr)) + 1, Len(arr))

\* ---- the random source: numpy's global generator ----
NextRng(s) == (3 * s + 1) % 31

RECURSIVE Iterate(_, _)
Iterate(s, n) == IF n <= 0 THEN s ELSE Iterate(NextRng(s), n - 1)

\* the generator after n draws; NextRng returns to s after 30 steps
Advance(s, n) == Iterate(s, n % 30)

\* np.random.normal(0, 0.1, n), in hundredths
Normal(s, n) == [k \in 1..n |-> ((Advance(s, k) % 5) - 2) * 5]
\* np.random.uniform(0, 2*pi, n), in quarter turns
UniformTwoPi(s, n) == [k \in 1..n |-> Advance(s, k) % 4]
\* np.random.uniform(0, pi, n), in quarter turns
UniformPi(s, n) == [k \in 1..n |-> (Advance(s, k) \div 4) % 2]

Sin(q) == CASE q % 4 = 0 -> 0 [] q % 4 = 1 -> 1 [] q % 4 = 2 -> 0 [] OTHER -> -1
Cos(q) == CASE q % 4 = 0 -> 1 [] q % 4 = 1 -> 0 [] q % 4 = 2 -> -1 [] OTHER -> 0

\* ---- create_atom_model's arithmetic ----
\* range(1, atomic_number // 2 + 1): one shell short
WireframeRange_short(N) == Range(1, (N \div 2) + 1)
\* 1 .. atomic_number // 2 + 2 inclusive: one shell too many
WireframeRange_inclusive(N) == Range(1, (N \div 2) + 3)

\* line 28
WireframeRange(N) == Range(1, (N \div 2) + 2)

ElectronRange_short(N) == Range(1, (N \div 2) + 1)

\* line 64
ElectronRange(N) == Range(1, (N \div 2) + 2)

\* i * 0.3, in tenths
Radius(k) == k * 3

ShellCapacity_linear(k) == 2 * k

\* 2 * i**2
ShellCapacity(k) == 2 * k * k

\* len(set(electron_positions)): coinciding points counted once
Placed_distinct(positions) == Cardinality({positions[k] : k \in 1..Len(positions)})

\* len(electron_positions)
Placed(positions) == Len(positions)

NumElectronsInShell_uncapped(k, N, positions) == Min(ShellCapacity(k), N)

\* line 65
NumElectronsInShell(k, N, positions) == Min(ShellCapacity(k), N - Placed(positions))

NumNeutrons_plus(N) == N + 1

NumProtons(N) == N
NumNeutrons(N) == N

\* lines 70-72 and zip of line 75
Points(r, theta, phi) ==
    [k \in 1..Len(phi) |-> <<r * Sin(theta[k]) * Cos(phi[k]),
                             r * Sin(theta[k]) * Sin(phi[k]),
                             r * Cos(theta[k])>>]

\* what the main block passes on
CallArgs(r) == r

AfterShow_loop == "prompt"

\* the process ends when plt.show() returns
AfterShow == "done"

\* ---- initial states ----
EmptyDrawing ==
    /\ i = 1
    /\ wireframes = <<>>
    /\ nucleus = <<>>
    /\ protons = <<>>
    /\ neutrons = <<>>
    /\ electron_positions = <<>>
    /\ scatters = <<>>
    /\ shown = 0

\* the program, blocked in its first input()
Init ==
    /\ pc = "prompt"
    /\ depth = 1
    /\ console = CallPrints
    /\ line = NoLine
    /\ reads = 0
    /\ ret = None
    /\ element = None
    /\ atomic_number = 0
    /\ calls = 0
    /\ args = None
    /\ rng \in 0..MaxSeed
    /\ EmptyDrawing
    /\ run = 1
    /\ prev = NoPrev

\* a direct call create_atom_model(element, N)
InitRender ==
    /\ pc = "shells"
    /\ depth = 0
    /\ console = <<>>
    /\ line = NoLine
    /\ reads = 0
    /\ ret = None
    /\ element = <<"X">>
    /\ atomic_number \in 1..MaxN
    /\ calls = 1
    /\ args = <<element, atomic_number>>
    /\ rng \in 0..MaxSeed
    /\ EmptyDrawing
    /\ run = 1
    /\ prev = NoPrev

\* ---- get_element_info ----
GetElementInfo ==
    /\ pc = "prompt"
    /\ \E l \in InputLines :
        LET e == capitalize(l) IN
        /\ line' = l
        /\ reads' = reads + 1
        /\ IF Lookup(e) # None
           THEN /\ ret' = Lookup(e)
                /\ pc' = "returned"
                /\ depth' = 0
                /\ console' = console
           ELSE /\ depth < MaxDepth
                /\ ret' = ret
                /\ pc' = "prompt"
                /\ depth' = depth + 1
                /\ console' = console \o <<NotFoundText>> \o CallPrints
    /\ UNCHANGED <<callVars, rng, i, drawVars, shown, run, prev>>

\* input() at end of file raises EOFError
InputEOF ==
    /\ pc = "prompt"
    /\ pc' = "EOFError"
    /\ UNCHANGED <<selVars, callVars, rng, i, drawVars, shown, run, prev>>

\* ---- __main__ ----
MainCall ==
    /\ pc = "returned"
    /\ element' = ret[1]
    /\ atomic_number' = ret[2]
    /\ args' = CallArgs(<<element', atomic_number'>>)
    /\ calls' = calls + 1
    /\ pc' = "shells"
    /\ i' = 1
    /\ UNCHANGED <<selVars, rng, drawVars, shown, run, prev>>

\* ---- create_atom_model ----
DrawShell ==
    /\ pc = "shells"
    /\ i \in WireframeRange(atomic_number)
    /\ wireframes' = Append(wireframes, Radius(i))
    /\ i' = i + 1
    /\ UNCHANGED <<pc, selVars, callVars, rng, nucleus, protons, neutrons,
                   electron_positions, scatters, shown, run, prev>>

ScatterNucleus ==
    /\ pc = "shells"
    /\ i \notin WireframeRange(atomic_number)
    /\ LET num_protons == NumProtons(atomic_number)
           num_neutrons == NumNeutrons(atomic_number)
           num_particles == num_protons + num_neutrons
           nucleus_x == Normal(rng, num_particles)
           nucleus_y == Normal(Advance(rng, num_particles), num_particles)
           nucleus_z == Normal(Advance(rng, 2 * num_particles), num_particles)
       IN /\ nucleus' = <<nucleus_x, nucleus_y, nucleus_z>>
          /\ protons' = <<Take(nucleus_x, num_protons), Take(nucleus_y, num_protons),
                          Take(nucleus_z, num_protons)>>
          /\ neutrons' = <<Drop(nucleus_x, num_protons), Drop(nucleus_y, num_protons),
                           Drop(nucleus_z, num_protons)>>
          /\ rng' = Advance(rng, 3 * num_particles)
    /\ electron_positions' = <<>>
    /\ i' = 1
    /\ pc' = "electrons"
    /\ UNCHANGED <<selVars, callVars, wireframes, scatters, shown, run, prev>>

PlaceElectrons ==
    /\ pc = "electrons"
    /\ i \in ElectronRange(atomic_number)
    /\ LET num_electrons_in_shell == NumElectronsInShell(i, atomic_number, electron_positions)
       IN IF num_electrons_in_shell < 0
          THEN \* np.random.uniform raises ValueError on a negative size
               /\ pc' = "ValueError"
               /\ UNCHANGED <<rng, i, electron_positions, scatters>>
          ELSE LET phi == UniformTwoPi(rng, num_electrons_in_shell)
                   theta == UniformPi(Advance(rng, num_electrons_in_shell),
                                      num_electrons_in_shell)
                   r == Radius(i)
                   pts == Points(r, theta, phi)
               IN /\ scatters' = Append(scatters,
                                        [r |-> r, pts |-> pts,
                                         label |-> IF i = 1 THEN "Electrons" ELSE ""])
                  /\ electron_positions' = electron_positions \o pts
                  /\ rng' = Advance(rng, 2 * num_electrons_in_shell)
                  /\ i' = i + 1
                  /\ pc' = pc
    /\ UNCHANGED <<selVars, callVars, wireframes, nucleus, protons, neutrons,
                   shown, run, prev>>

\* lines 77-90, up to the blocking plt.show()
Show ==
    /\ pc = "electrons"
    /\ i \notin ElectronRange(atomic_number)
    /\ shown' = shown + 1
    /\ pc' = "showing"
    /\ UNCHANGED <<selVars, callVars, rng, i, drawVars, run, prev>>

\* the user closes the window; plt.show() and create_atom_model return
CloseWindow ==
    /\ pc = "showing"
    /\ pc' = AfterShow
    /\ console' = IF AfterShow = "prompt" THEN console \o CallPrints ELSE console
    /\ depth' = IF AfterShow = "prompt" THEN 1 ELSE depth
    /\ UNCHANGED <<line, reads, ret, callVars, rng, i, drawVars, shown, run, prev>>

\* ---- what one render produced ----
Counts ==
    [run |-> run,
     protons |-> Len(protons[1]),
     neutrons |-> Len(neutrons[1]),
     shells |-> Len(wireframes),
     electrons |-> [k \in 1..Len(scatters) |-> Len(scatters[k].pts)],
     positions |-> electron_positions,
     nucleus |-> nucleus]

\* create_atom_model called again with the same arguments
Rerun ==
    /\ pc = "done"
    /\ run < MaxRuns
    /\ prev' = Counts
    /\ run' = run + 1
    /\ calls' = calls + 1
    /\ pc' = "shells"
    /\ i' = 1
    /\ wireframes' = <<>>
    /\ nucleus' = <<>>
    /\ protons' = <<>>
    /\ neutrons' = <<>>
    /\ electron_positions' = <<>>
    /\ scatters' = <<>>
    /\ shown' = 0
    /\ UNCHANGED <<selVars, element, atomic_number, args, rng>>

Next ==
    \/ GetElementInfo
    \/ InputEOF
    \/ MainCall
    \/ DrawShell
    \/ ScatterNucleus
    \/ PlaceElectrons
    \/ Show
    \/ CloseWindow

NextRender ==
    \/ DrawShell
    \/ ScatterNucleus
    \/ PlaceElectrons
    \/ Show
    \/ CloseWindow
    \/ Rerun

Spec == Init /\ [][Next]_vars

SpecRender == InitRender /\ [][NextRender]_vars

\* ---- helpers of the properties ----
NotFoundCount(out) == Cardinality({k \in 1..Len(out) : out[k] = NotFoundText})

ElectronCounts == [k \in 1..Len(scatters) |-> Len(scatters[k].pts)]

RECURSIVE SumFirst(_, _)
SumFirst(f, n) == IF n <= 0 THEN 0 ELSE f[n] + SumFirst(f, n - 1)

RECURSIVE SumSquaresTwice(_)
SumSquaresTwice(n) == IF n <= 0 THEN 0 ELSE 2 * n * n + SumSquaresTwice(n - 1)

LoopsFinished == pc \in {"showing", "done"}

\* C1: once a line that is an upper/lower-case variant of a table symbol S has
\* been read, get_element_info has returned the pair (S, the number stored for
\* S), and that number is at least 1.
C1_LookupAnyCase ==
    \A S \in DOMAIN periodic_table :
        (reads > 0 /\ line \in CaseVariants(S))
            => /\ ret = <<S, periodic_table[S]>>
               /\ ret[2] >= 1
               /\ pc # "prompt"

C1_Witness == reads > 0 /\ line = <<"h", "E">> /\ ret = <<<<"H", "e">>, 2>>

C3_NucleusCounts ==
    pc \in {"electrons", "showing", "done"} =>
        \A c \in 1..3 :
            /\ Len(nucleus[c]) = 2 * atomic_number
            /\ Len(protons[c]) = atomic_number
            /\ Len(neutrons[c]) = atomic_number
            /\ \A j \in 1..atomic_number :
                /\ protons[c][j] = nucleus[c][j]
                /\ neutrons[c][j] = nucleus[c][atomic_number + j]

C3_Witness == pc = "done" /\ atomic_number = 20 /\ Len(protons[1]) = 20 /\ Len(neutrons[3]) = 20

\* C4: shell k receives min(2*k^2, N minus what shells 1..k-1 received)
\* electrons and the running sum never exceeds N; N = 1 gives 1 electron in
\* shell 1, N = 2 gives 2 in shell 1 only, N = 20 gives 2, 8, 10 and no more.
C4_ShellCounts ==
    /\ \A k \in 1..Len(scatters) :
        /\ ElectronCounts[k] = Min(2 * k * k, atomic_number - SumFirst(ElectronCounts, k - 1))
        /\ SumFirst(ElectronCounts, k) <= atomic_number
    /\ (LoopsFinished /\ atomic_number = 1) => ElectronCounts = <<1>>
    /\ (LoopsFinished /\ atomic_number = 2) => ElectronCounts = <<2, 0>>
    /\ (LoopsFinished /\ atomic_number = 20) =>
           ElectronCounts = <<2, 8, 10, 0, 0, 0, 0, 0, 0, 0, 0>>

C4_Witness == pc = "done" /\ atomic_number = 20 /\ Len(scatters) = 11 /\ ElectronCounts[3] = 10

\* C5 as stated: the single input line "h" gives "H", atomic number 1, 1 proton,
\* 1 neutron, 1 electron and 2 shells drawn.
C5_Original ==
    (pc = "done" /\ reads = 1 /\ line = <<"h">>) =>
        /\ element = <<"H">>
        /\ atomic_number = 1
        /\ Len(protons[1]) = 1
        /\ Len(neutrons[1]) = 1
        /\ Len(electron_positions) = 1
        /\ Len(wireframes) = 2

\* C5 amended: the single input line "h" gives "H", atomic number 1, 1 proton,
\* 1 neutron, 1 electron and 1 shell drawn (range(1, 2) holds the index 1 only).
C5_Amended ==
    (pc = "done" /\ reads = 1 /\ line = <<"h">>) =>
        /\ element = <<"H">>
        /\ atomic_number = 1
        /\ Len(protons[1]) = 1
        /\ Len(neutrons[1]) = 1
        /\ Len(electron_positions) = 1
        /\ Len(wireframes) = 1
        /\ Len(scatters) = 1

C5_Witness == pc = "done" /\ reads = 1 /\ line = <<"h">> /\ wireframes = <<3>>

\* C6: a second run with the same atomic_number ends with the same proton
\* count, neutron count, number of shells and per-shell electron counts as the
\* first, whatever the random source returned.
C6_CountsRepeat ==
    (run = 2 /\ pc = "done") =>
        /\ Len(protons[1]) = prev.protons
        /\ Len(neutrons[1]) = prev.neutrons
        /\ Len(wireframes) = prev.shells
        /\ ElectronCounts = prev.electrons

C6_Witness ==
    /\ run = 2
    /\ pc = "done"
    /\ electron_positions # prev.positions
    /\ nucleus # prev.nucleus

C8_SameShellRange ==
    /\ pc \in {"electrons", "showing", "done"} =>
        /\ Len(wireframes) = (atomic_number \div 2) + 1
        /\ \A k \in 1..Len(wireframes) : wireframes[k] = 3 * k
    /\ LoopsFinished =>
        /\ Len(scatters) = (atomic_number \div 2) + 1
        /\ \A k \in 1..Len(scatters) : scatters[k].r = 3 * k /\ scatters[k].r = wireframes[k]

C8_Witness == pc = "done" /\ atomic_number = 7 /\ Len(wireframes) = 4 /\ scatters[4].r = 12

\* C9: for the atomic numbers of the table, the finished electron loop has
\* placed exactly N electrons, the N // 2 + 1 shells have capacity for N, and
\* no shell was asked for a negative number of electrons.
C9_AllElectronsPlaced ==
    /\ pc # "ValueError"
    /\ pc \in {"shells", "electrons", "showing", "done"} =>
        /\ atomic_number \in 1..20
        /\ SumSquaresTwice((atomic_number \div 2) + 1) >= atomic_number
    /\ LoopsFinished =>
        /\ Len(electron_positions) = atomic_number
        /\ SumFirst(ElectronCounts, Len(scatters)) = atomic_number

C9_Witness == pc = "done" /\ atomic_number = 19 /\ Len(electron_positions) = 19

\* C10: a shell holds electrons only if every earlier shell is full, a shell
\* that is not full is followed by empty shells only, no shell after the third
\* holds electrons, and every electron lies within radius 0.9 and within the
\* axis limits -2..2.
C10_FilledInOrder ==
    /\ \A k \in 1..Len(scatters) :
        /\ ElectronCounts[k] > 0 =>
            /\ k <= 3
            /\ \A j \in 1..(k - 1) : ElectronCounts[j] = 2 * j * j
        /\ ElectronCounts[k] < 2 * k * k =>
            \A j \in (k + 1)..Len(scatters) : ElectronCounts[j] = 0
    /\ \A k \in 1..Len(electron_positions) :
        LET p == electron_positions[k] IN
        /\ p[1] * p[1] + p[2] * p[2] + p[3] * p[3] <= 9 * 9
        /\ \A c \in 1..3 : -20 <= p[c] /\ p[c] <= 20

C10_Witness ==
    /\ pc = "done"
    /\ atomic_number = 20
    /\ ElectronCounts[3] = 10
    /\ wireframes[11] = 33
    /\ \E k \in 1..20 : electron_positions[k][3] = 9

====
